---- MODULE Spec2Model ----
(***************************************************************************)
(* Model of coins/src/utils/dynamodbV3.ts: the batching, deduplication,    *)
(* pagination and retry layer over the DynamoDB document client.           *)
(*                                                                         *)
(* One call of one exported function is modelled per behaviour: Init       *)
(* chooses the function (op) and its arguments, the actions are the        *)
(* caller's invocation and the store's responses (each followed by the     *)
(* code that runs, without suspension, up to the next await).              *)
(***************************************************************************)
EXTENDS Integers, Sequences, FiniteSets, TLC

(* ---- bounds of the model ---- *)
MaxItems == 27      \* longest input of batchWrite
MaxKeys == 101      \* longest input of batchGet
MaxSK == 5          \* sort keys of the queried partition are 0..MaxSK
MaxDeleteKeys == 2  \* longest input of DELETE
RandomSteps == 4    \* Math.random() returns k / RandomSteps, 0 <= k < RandomSteps
MaxTimedItems == 2  \* longest input of a batchWrite whose sleeps are timed
MaxOtherWrites == 2 \* writes of other clients during one getHistoricalValues
MaxDedupLen == 4    \* longest input of removeDuplicateKeys called on its own

(* ---- constants of the program ---- *)
maxWriteRetries == 6
batchWriteStep == 25
batchGetStep == 100
DefaultRetriesLeft == 3
DefaultLastKey == -1

VARIABLES
  op,           \* the exported function under call
  table,        \* the store: a set of items, at most one per (PK, SK)
  items,        \* batchWrite: the items argument
  failOnError,  \* batchWrite: the failOnError argument
  loops,        \* batchWrite: one underlyingBatchWrite chain per chunk
  wCall,        \* batchWrite: state of the promise returned to the caller
  run,          \* batchWrite: 1 in the caller's first call, 2 in its second
  firstKeys,    \* batchWrite: the keys the store held when the first call returned
  timed,        \* batchWrite: whether the time slept by the chains is recorded
  keys,         \* batchGet: the keys argument of the caller's invocation
  retriesLeft,  \* batchGet: the retriesLeft argument of the caller's invocation
  pass,         \* batchGet: the innermost invocation that issued native calls
  stack,        \* batchGet: processedResponses of the invocations awaiting it
  gCall,        \* batchGet: state of the promise returned to the caller
  gResult,      \* batchGet: the value the caller's invocation returned
  gPasses,      \* batchGet: invocations that issued native calls so far
  resolved,     \* batchGet: keys the store has reported processed so far
  stuck,        \* batchGet: keys reported unprocessed in every pass so far
  passes,       \* batchGet: the passes completed so far, with their responses
  pk,           \* getHistoricalValues: the pk argument
  lastKey0,     \* getHistoricalValues: the lastKey argument
  lastKey,      \* getHistoricalValues: the local variable lastKey
  hItems,       \* getHistoricalValues: the local variable items
  hCall,        \* getHistoricalValues: state of the promise returned
  hQueries,     \* getHistoricalValues: queries issued so far
  hPages,       \* getHistoricalValues: query responses received so far
  writes,       \* getHistoricalValues: writes of other clients so far
  late,         \* getHistoricalValues: items other clients put at or below
                \*   the watermark of the query under way
  dKeys,        \* DELETE: the keys argument
  requests,     \* DELETE: the native deletes pushed to requests
  dCall,        \* DELETE: state of the promise returned
  rIn,          \* removeDuplicateKeys: the items argument
  rOut,         \* removeDuplicateKeys: the value returned
  rAgain,       \* removeDuplicateKeys: the value returned for rOut
  rCall,        \* removeDuplicateKeys: "idle", "once" or "twice" applied
  raised,       \* errors the store client has raised in native calls so far
  errSrc        \* the native call whose error the call failed with: the chunk
                \*   of batchWrite or batchGet, the query, the delete; 0 if none

wvars == <<items, failOnError, loops, wCall, run, firstKeys, timed>>
gvars == <<keys, retriesLeft, pass, stack, gCall, gResult, gPasses, resolved, stuck,
          passes>>
hvars == <<pk, lastKey0, lastKey, hItems, hCall, hQueries, hPages, writes, late>>
dvars == <<dKeys, requests, dCall>>
rvars == <<rIn, rOut, rAgain, rCall>>
evars == <<raised, errSrc>>
vars == <<op, table, wvars, gvars, hvars, dvars, rvars, evars>>

(* ---- JavaScript values that may be absent ---- *)
Undefined == [type |-> "undefined", num |-> 0]
NaN == [type |-> "NaN", num |-> 0]
Num(n) == [type |-> "number", num |-> n]
NoString == [type |-> "undefined", str |-> ""]
Str(s) == [type |-> "string", str |-> s]

Min(a, b) == IF a < b THEN a ELSE b

SameKey(x, y) == x.PK = y.PK /\ x.SK = y.SK

KeyOf(x) == [PK |-> x.PK, SK |-> x.SK]

(* keeps the last item of each key *)
removeDuplicateKeepLast(s) ==
  LET indexed == [i \in 1..Len(s) |-> <<i, s[i]>>]
      NotSeenAfter(p) == \A j \in (p[1] + 1)..Len(s) : ~SameKey(s[j], p[2])
      sel == SelectSeq(indexed, NotSeenAfter)
  IN [k \in 1..Len(sel) |-> sel[k][2]]

(* compares the sort keys only *)
removeDuplicateSK(s) ==
  LET indexed == [i \in 1..Len(s) |-> <<i, s[i]>>]
      NotSeenBefore(p) == \A j \in 1..(p[1] - 1) : s[j].SK # p[2].SK
      sel == SelectSeq(indexed, NotSeenBefore)
  IN [k \in 1..Len(sel) |-> sel[k][2]]

(* compares an item with its predecessor only *)
removeAdjacentDuplicates(s) ==
  LET indexed == [i \in 1..Len(s) |-> <<i, s[i]>>]
      NotAsBefore(p) == p[1] = 1 \/ ~SameKey(s[p[1] - 1], p[2])
      sel == SelectSeq(indexed, NotAsBefore)
  IN [k \in 1..Len(sel) |-> sel[k][2]]

(* items.filter((item, index) =>                                           *)
(*   items.slice(0, index).every((checkedItem) => !same key))              *)
removeDuplicateKeys(s) ==
  LET indexed == [i \in 1..Len(s) |-> <<i, s[i]>>]
      NotSeenBefore(p) == \A j \in 1..(p[1] - 1) : ~SameKey(s[j], p[2])
      sel == SelectSeq(indexed, NotSeenBefore)
  IN [k \in 1..Len(sel) |-> sel[k][2]]

(* slice with an inclusive end *)
SliceInclusive(s, i, step) == SubSeq(s, i + 1, Min(i + step + 1, Len(s)))

(* items.slice(i, i + step), i counted from 0 *)
Slice(s, i, step) == SubSeq(s, i + 1, Min(i + step, Len(s)))

(* the values i takes in: for (i = 0; i < s.length; i += step) *)
ChunkStarts(s, step) == {i \in 0..Len(s) : i < Len(s) /\ i % step = 0}

(* number of pushes of the for loop *)
NumChunks(s, step) == Cardinality(ChunkStarts(s, step))

(* the c-th chunk (c from 1) of the for loop *)
ChunkOf(s, c, step) == Slice(s, (c - 1) * step, step)

(* ---- the store ---- *)
(* adds the item without replacing the one with its key *)
InsertOnly(t, item) == t \cup {item}

(* PutRequest: the item replaces the stored item with its key *)
Upsert(t, item) == {x \in t : ~SameKey(x, item)} \cup {item}

RECURSIVE PutAll(_, _)
PutAll(t, s) == IF s = << >> THEN t ELSE PutAll(Upsert(t, Head(s)), Tail(s))

(* partial success of a native batch call: the unprocessed remainders the  *)
(* store may report for the entries sent (nothing, everything, everything  *)
(* but the first entry, the first entry only)                              *)
UnprocessedChoices(sent) ==
  IF sent = << >> THEN {<< >>}
  ELSE {<< >>, sent, Tail(sent), <<Head(sent)>>}

(* the entries of sent the store did process *)
Processed(sent, unprocessed) ==
  LET left == {unprocessed[j] : j \in 1..Len(unprocessed)}
      Done(x) == x \notin left
  IN SelectSeq(sent, Done)

(* ---- inputs ---- *)
Periods(step) == {1, 3, step + 1}

(* input lengths: short inputs and inputs around the chunk boundary *)
Lengths(step, max) == {n \in 0..max : n <= 3 \/ n >= step - 1}

(* the i-th entry of an input whose keys repeat with the given period:     *)
(* keys run (a,0), (b,0), (a,1), (b,1), ...; v tells the entries apart     *)
EntryAt(i, period) ==
  LET k == (i - 1) % period
  IN [PK |-> IF k % 2 = 0 THEN "a" ELSE "b", SK |-> k \div 2, v |-> i]

InputOf(n, period) == [i \in 1..n |-> EntryAt(i, period)]

NoPass == [keys |-> << >>, retriesLeft |-> 0, requests |-> << >>]

(* ---- batchWrite ---- *)
IdleWrite ==
  /\ items = << >>
  /\ failOnError = FALSE
  /\ loops = << >>
  /\ wCall = "idle"
  /\ run = 1
  /\ firstKeys = {}
  /\ timed = FALSE

IdleGet ==
  /\ keys = << >>
  /\ retriesLeft = DefaultRetriesLeft
  /\ pass = NoPass
  /\ stack = << >>
  /\ gCall = "idle"
  /\ gResult = << >>
  /\ gPasses = 0
  /\ resolved = {}
  /\ stuck = {}
  /\ passes = << >>

IdleHist ==
  /\ pk = "a"
  /\ lastKey0 = DefaultLastKey
  /\ lastKey = Num(DefaultLastKey)
  /\ hItems = << >>
  /\ hCall = "idle"
  /\ hQueries = 0
  /\ hPages = 0
  /\ writes = 0
  /\ late = {}

IdleDelete ==
  /\ dKeys = << >>
  /\ requests = << >>
  /\ dCall = "idle"

NoErrors ==
  /\ raised = 0
  /\ errSrc = 0

IdleDedup ==
  /\ rIn = << >>
  /\ rOut = << >>
  /\ rAgain = << >>
  /\ rCall = "idle"

InitWrite ==
  /\ op = "batchWrite"
  /\ table = {}
  /\ \E n \in Lengths(batchWriteStep, MaxItems), p \in Periods(batchWriteStep) :
       items = InputOf(n, p)
  /\ failOnError \in BOOLEAN
  /\ loops = << >>
  /\ wCall = "idle"
  /\ run = 1
  /\ firstKeys = {}
  /\ timed = FALSE
  /\ IdleGet /\ IdleHist /\ IdleDelete /\ IdleDedup /\ NoErrors

(* a batchWrite of a short input, with the time slept recorded *)
InitSleep ==
  /\ op = "batchWrite"
  /\ table = {}
  /\ \E n \in 0..MaxTimedItems, p \in Periods(batchWriteStep) : items = InputOf(n, p)
  /\ failOnError \in BOOLEAN
  /\ loops = << >>
  /\ wCall = "idle"
  /\ run = 1
  /\ firstKeys = {}
  /\ timed = TRUE
  /\ IdleGet /\ IdleHist /\ IdleDelete /\ IdleDedup /\ NoErrors

(* settles with the first chain that settles *)
PromiseRaceWrite(ls) ==
  IF \E c \in 1..Len(ls) : ls[c].pc = "failed" THEN "failed"
  ELSE IF \E c \in 1..Len(ls) : ls[c].pc = "done" THEN "returned"
  ELSE IF ls = << >> THEN "returned"
  ELSE "pending"

(* await Promise.all(writeRequests) *)
PromiseAllWrite(ls) ==
  IF \E c \in 1..Len(ls) : ls[c].pc = "failed" THEN "failed"
  ELSE IF \A c \in 1..Len(ls) : ls[c].pc = "done" THEN "returned"
  ELSE "pending"

(* a chain before its first invocation: the history of the chain *)
NewChain ==
  [pc |-> "new", items |-> << >>, retryCount |-> 0,
   attempts |-> 0,     \* native calls issued
   responses |-> 0,    \* responses received
   throttled |-> 0,    \* responses that reported unprocessed items
   wakes |-> 0,        \* sleeps that have elapsed
   clean |-> FALSE,    \* the last response reported nothing unprocessed
   accepted |-> {},    \* the items the store has accepted from the chain
   sleepUs |-> 0,      \* the sleep under way, in microseconds (when timed)
   sleptUs |-> 0]      \* the time slept so far, in microseconds (when timed)

(* underlyingBatchWrite(items, retryCount, failOnError) up to its first    *)
(* await: the native call is issued                                        *)
IssueWrite(its, retryCount, att) ==  \* att: the chain so far
  [att EXCEPT !.pc = "await", !.items = its, !.retryCount = retryCount,
              !.attempts = att.attempts + 1, !.clean = FALSE]

(* the for loop of batchWrite: the first native call of every chunk *)
FirstAttempts ==
  [c \in 1..NumChunks(items, batchWriteStep) |->
     IssueWrite(removeDuplicateKeys(ChunkOf(items, c, batchWriteStep)), 0, NewChain)]

(* the caller invokes batchWrite: the for loop issues the first native     *)
(* call of every chunk, then the function awaits Promise.all               *)
BatchWriteCall ==
  /\ op = "batchWrite" /\ wCall = "idle"
  /\ loops' = FirstAttempts
  /\ wCall' = PromiseAllWrite(loops')
  /\ UNCHANGED <<op, table, items, failOnError, run, firstKeys, timed, gvars, hvars, dvars, rvars, evars>>

(* the caller invokes batchWrite again with the same arguments, after a    *)
(* call that returned with every item accepted                             *)
BatchWriteAgain ==
  /\ op = "batchWrite" /\ wCall = "returned" /\ run = 1
  /\ \A c \in 1..Len(loops) : loops[c].clean
  /\ run' = 2
  /\ firstKeys' = {KeyOf(x) : x \in table}
  /\ loops' = FirstAttempts
  /\ wCall' = PromiseAllWrite(loops')
  /\ UNCHANGED <<op, table, items, failOnError, timed, gvars, hvars, dvars, rvars, evars>>

(* retryCount <= maxWriteRetries *)
MayRetryOnceMore(retryCount) == retryCount <= maxWriteRetries

(* retryCount < maxWriteRetries *)
MayRetry(retryCount) == retryCount < maxWriteRetries

(* 2 ** (retryCount + 1) * 10 *)
WaitDoubled(retryCount) == 2 ^ (retryCount + 1) * 10

(* wait = 2 ** retryCount * 10, in milliseconds *)
Wait(retryCount) == 2 ^ retryCount * 10

(* wait + jitter, in microseconds, where jitter = Math.random() * wait -   *)
(* wait / 2 and Math.random() returned k / RandomSteps                     *)
SleepUs(retryCount, k) ==
  LET wait == Wait(retryCount) * 1000
      jitter == (k * wait) \div RandomSteps - wait \div 2
  IN wait + jitter

(* the chain l goes to sleep *)
GoToSleep(l, k) ==
  IF timed
  THEN [l EXCEPT !.pc = "sleep", !.sleepUs = SleepUs(l.retryCount, k),
                 !.sleptUs = l.sleptUs + SleepUs(l.retryCount, k)]
  ELSE [l EXCEPT !.pc = "sleep"]

(* throws whatever failOnError says *)
AfterWriteAlwaysThrow(l, unprocessed, foe, k) ==
  IF Len(unprocessed) > 0
  THEN LET m == [l EXCEPT !.items = unprocessed, !.throttled = l.throttled + 1]
       IN IF MayRetry(l.retryCount)
          THEN GoToSleep(m, k)
          ELSE [m EXCEPT !.pc = "failed"]
  ELSE [l EXCEPT !.pc = "done", !.items = unprocessed, !.clean = TRUE]

(* gives up without error whatever failOnError says *)
AfterWriteNeverThrow(l, unprocessed, foe, k) ==
  IF Len(unprocessed) > 0
  THEN LET m == [l EXCEPT !.items = unprocessed, !.throttled = l.throttled + 1]
       IN IF MayRetry(l.retryCount)
          THEN GoToSleep(m, k)
          ELSE [m EXCEPT !.pc = "done"]
  ELSE [l EXCEPT !.pc = "done", !.items = unprocessed, !.clean = TRUE]

(* retries without awaiting the sleep *)
AfterWriteNoSleep(l, unprocessed, foe, k) ==
  IF Len(unprocessed) > 0
  THEN LET m == [l EXCEPT !.items = unprocessed, !.throttled = l.throttled + 1]
       IN IF MayRetry(l.retryCount)
          THEN [m EXCEPT !.pc = "await", !.retryCount = l.retryCount + 1,
                         !.attempts = l.attempts + 1]
          ELSE IF foe
               THEN [m EXCEPT !.pc = "failed"]
               ELSE [m EXCEPT !.pc = "done"]
  ELSE [l EXCEPT !.pc = "done", !.items = unprocessed, !.clean = TRUE]

(* what underlyingBatchWrite does with the output of the native call, when *)
(* Math.random() returns k / RandomSteps: items keeps the unprocessed      *)
(* remainder, throttled and clean record the history of the chain          *)
AfterWrite(l, unprocessed, foe, k) ==
  IF Len(unprocessed) > 0
  THEN LET m == [l EXCEPT !.items = unprocessed, !.throttled = l.throttled + 1]
       IN IF MayRetry(l.retryCount)
          THEN GoToSleep(m, k)
          ELSE IF foe
               THEN [m EXCEPT !.pc = "failed"]
               ELSE [m EXCEPT !.pc = "done"]
  ELSE [l EXCEPT !.pc = "done", !.items = unprocessed, !.clean = TRUE]

(* the remainders the store may report: any of UnprocessedChoices in the   *)
(* first call, nothing in the second call (made against a store that       *)
(* accepts every item)                                                     *)
StoreWriteChoices(sent) == IF run = 2 THEN {<< >>} ELSE UnprocessedChoices(sent)

(* the values of k Math.random() may draw; the draw is looked at only when *)
(* the time slept is recorded                                              *)
RandomDraws == IF timed THEN 0..(RandomSteps - 1) ELSE {0}

(* the store answers the native batch write of chunk c *)
WriteRespond(c) ==
  /\ op = "batchWrite"
  /\ c \in 1..Len(loops) /\ loops[c].pc = "await"
  /\ \E unprocessed \in StoreWriteChoices(loops[c].items), k \in RandomDraws :
       LET done == Processed(loops[c].items, unprocessed)
           l == [loops[c] EXCEPT !.responses = loops[c].responses + 1,
                                 !.accepted = loops[c].accepted
                                                \cup {done[i] : i \in 1..Len(done)}]
       IN /\ table' = PutAll(table, done)
          /\ loops' = [loops EXCEPT ![c] = AfterWrite(l, unprocessed, failOnError, k)]
  /\ wCall' = IF wCall = "pending" THEN PromiseAllWrite(loops') ELSE wCall
  /\ UNCHANGED <<op, items, failOnError, run, firstKeys, timed, gvars, hvars, dvars, rvars, evars>>

(* the whole chunk is submitted again *)
WriteWakeWholeChunk(c) ==
  /\ op = "batchWrite"
  /\ c \in 1..Len(loops) /\ loops[c].pc = "sleep"
  /\ loops' = [loops EXCEPT ![c] =
                 IssueWrite(removeDuplicateKeys(ChunkOf(items, c, batchWriteStep)),
                            loops[c].retryCount + 1,
                            [loops[c] EXCEPT !.wakes = loops[c].wakes + 1, !.sleepUs = 0])]
  /\ UNCHANGED <<op, table, items, failOnError, wCall, run, firstKeys, timed,
                 gvars, hvars, dvars, rvars, evars>>

(* the backoff sleep of chunk c elapses: the recursive call issues the     *)
(* next native call                                                        *)
WriteWake(c) ==
  /\ op = "batchWrite"
  /\ c \in 1..Len(loops) /\ loops[c].pc = "sleep"
  /\ loops' = [loops EXCEPT ![c] =
                 IssueWrite(loops[c].items, loops[c].retryCount + 1,
                            [loops[c] EXCEPT !.wakes = loops[c].wakes + 1, !.sleepUs = 0])]
  /\ UNCHANGED <<op, table, items, failOnError, wCall, run, firstKeys, timed,
                 gvars, hvars, dvars, rvars, evars>>

NextWrite ==
  \/ BatchWriteCall
  \/ BatchWriteAgain
  \/ \E c \in 1..Len(loops) : WriteRespond(c)
  \/ \E c \in 1..Len(loops) : WriteWake(c)

(* ---- batchGet ---- *)
KeyAt(i, period) == KeyOf(EntryAt(i, period))

StoredItem(k) == [PK |-> k.PK, SK |-> k.SK, v |-> 0]

InitGet ==
  /\ op = "batchGet"
  /\ \E n \in Lengths(batchGetStep, MaxKeys), p \in Periods(batchGetStep) :
       /\ keys = [i \in 1..n |-> KeyAt(i, p)]
       /\ table \in {{StoredItem(keys[i]) : i \in 1..n},
                     {StoredItem(keys[i]) : i \in {j \in 1..n : keys[j].PK = "a"}}}
  /\ retriesLeft \in 0..DefaultRetriesLeft
  /\ pass = NoPass
  /\ stack = << >>
  /\ gCall = "idle"
  /\ gResult = << >>
  /\ gPasses = 0
  /\ resolved = {}
  /\ stuck = {keys[i] : i \in 1..Len(keys)}
  /\ passes = << >>
  /\ IdleWrite /\ IdleHist /\ IdleDelete /\ IdleDedup /\ NoErrors

(* ([] as any[]).concat(...seqs) and seqs.flat() *)
RECURSIVE Flat(_)
Flat(seqs) == IF seqs = << >> THEN << >> ELSE Head(seqs) \o Flat(Tail(seqs))

(* Responses[TableName] of a native batch get: the stored items of the     *)
(* keys the store processed                                                *)
ResponsesOf(ks) ==
  LET Stored(k) == StoredItem(k) \in table
      found == SelectSeq(ks, Stored)
  IN [i \in 1..Len(found) |-> StoredItem(found[i])]

(* retriesLeft <= 1 *)
ExhaustedEarly(r) == r <= 1

(* retriesLeft === 0 *)
Exhausted(r) == r = 0

(* returns what was resolved so far once the budget is consumed *)
GetEnterPartial(ks, r, stk, cur) ==
  IF Exhausted(r) \/ ks = << >>
  THEN /\ gCall' = "returned"
       /\ gResult' = Flat(stk)
       /\ pass' = cur /\ stack' = << >>
       /\ UNCHANGED gPasses
  ELSE /\ pass' = [keys |-> ks, retriesLeft |-> r,
                   requests |-> [c \in 1..NumChunks(ks, batchGetStep) |->
                     [keys |-> removeDuplicateKeys(ChunkOf(ks, c, batchGetStep)),
                      pc |-> "await", Responses |-> << >>, Unprocessed |-> << >>]]]
       /\ stack' = stk
       /\ gCall' = "pending"
       /\ gPasses' = gPasses + 1
       /\ UNCHANGED gResult

(* an invocation batchGet(ks, r) made with the processedResponses stk of   *)
(* its callers, up to its await; cur is the pass that made the invocation, *)
(* kept as the last pass when the invocation issues no native call; an     *)
(* error or a return value passes through every awaiting caller            *)
GetEnter(ks, r, stk, cur) ==
  IF Exhausted(r)
  THEN /\ gCall' = "failed"
       /\ pass' = cur /\ stack' = << >>
       /\ UNCHANGED <<gResult, gPasses>>
  ELSE IF ks = << >>
  THEN /\ gCall' = "returned"
       /\ gResult' = Flat(stk)
       /\ pass' = cur /\ stack' = << >>
       /\ UNCHANGED gPasses
  ELSE /\ pass' = [keys |-> ks, retriesLeft |-> r,
                   requests |-> [c \in 1..NumChunks(ks, batchGetStep) |->
                     [keys |-> removeDuplicateKeys(ChunkOf(ks, c, batchGetStep)),
                      pc |-> "await", Responses |-> << >>, Unprocessed |-> << >>]]]
       /\ stack' = stk
       /\ gCall' = "pending"
       /\ gPasses' = gPasses + 1
       /\ UNCHANGED gResult

(* the caller invokes batchGet(keys, retriesLeft) *)
BatchGetCall ==
  /\ op = "batchGet" /\ gCall = "idle"
  /\ GetEnter(keys, retriesLeft, << >>, pass)
  /\ UNCHANGED <<op, table, keys, retriesLeft, resolved, stuck, passes, wvars, hvars, dvars, rvars, evars>>

(* asks again for every key of the pass *)
GetSettleRetryAll(reqs) ==
  LET processedResponses == Flat([c \in 1..Len(reqs) |-> reqs[c].Responses])
      unprocessed == Flat([c \in 1..Len(reqs) |-> reqs[c].Unprocessed])
  IN /\ stuck' = stuck \cap {unprocessed[i] : i \in 1..Len(unprocessed)}
     /\ passes' = Append(passes, [pass EXCEPT !.requests = reqs])
     /\ IF Len(unprocessed) > 0
        THEN GetEnter(pass.keys, pass.retriesLeft - 1,
                      Append(stack, processedResponses),
                      [pass EXCEPT !.requests = reqs])
        ELSE /\ gCall' = "returned"
             /\ gResult' = Flat(Append(stack, processedResponses))
             /\ pass' = [pass EXCEPT !.requests = reqs]
             /\ stack' = << >>
             /\ UNCHANGED gPasses

(* the code after await Promise.all(requests), given the responses *)
GetSettle(reqs) ==
  LET processedResponses == Flat([c \in 1..Len(reqs) |-> reqs[c].Responses])
      unprocessed == Flat([c \in 1..Len(reqs) |-> reqs[c].Unprocessed])
  IN /\ stuck' = stuck \cap {unprocessed[i] : i \in 1..Len(unprocessed)}
     /\ passes' = Append(passes, [pass EXCEPT !.requests = reqs])
     /\ IF Len(unprocessed) > 0
        THEN GetEnter(unprocessed, pass.retriesLeft - 1,
                      Append(stack, processedResponses),
                      [pass EXCEPT !.requests = reqs])
        ELSE /\ gCall' = "returned"
             /\ gResult' = Flat(Append(stack, processedResponses))
             /\ pass' = [pass EXCEPT !.requests = reqs]
             /\ stack' = << >>
             /\ UNCHANGED gPasses

(* the store answers the native batch get of chunk c of the current pass *)
GetRespond(c) ==
  /\ op = "batchGet" /\ gCall = "pending"
  /\ c \in 1..Len(pass.requests) /\ pass.requests[c].pc = "await"
  /\ \E unprocessed \in UnprocessedChoices(pass.requests[c].keys) :
       LET done == Processed(pass.requests[c].keys, unprocessed)
           reqs == [pass.requests EXCEPT ![c] =
                      [keys |-> pass.requests[c].keys, pc |-> "done",
                       Responses |-> ResponsesOf(done), Unprocessed |-> unprocessed]]
       IN /\ resolved' = resolved \cup {done[i] : i \in 1..Len(done)}
          /\ IF \A d \in 1..Len(reqs) : reqs[d].pc = "done"
             THEN GetSettle(reqs)
             ELSE /\ pass' = [pass EXCEPT !.requests = reqs]
                  /\ UNCHANGED <<stack, gCall, gResult, gPasses, stuck, passes>>
  /\ UNCHANGED <<op, table, keys, retriesLeft, wvars, hvars, dvars, rvars, evars>>

NextGet ==
  \/ BatchGetCall
  \/ \E c \in 1..Len(pass.requests) : GetRespond(c)

(* ---- getHistoricalValues ---- *)
OtherPartition == {[PK |-> "b", SK |-> 1, v |-> 0], [PK |-> "b", SK |-> MaxSK, v |-> 0]}

InitHist ==
  /\ op = "getHistoricalValues"
  /\ pk = "a"
  /\ \E S \in SUBSET (0..MaxSK) :
       table = {[PK |-> "a", SK |-> sk, v |-> 0] : sk \in S} \cup OtherPartition
  /\ lastKey0 \in DefaultLastKey..MaxSK
  /\ lastKey = Num(lastKey0)
  /\ hItems = << >>
  /\ hCall = "idle"
  /\ hQueries = 0
  /\ hPages = 0
  /\ writes = 0
  /\ late = {}
  /\ IdleWrite /\ IdleGet /\ IdleDelete /\ IdleDedup /\ NoErrors

(* the items of a set in ascending SK order *)
RECURSIVE SortBySK(_)
SortBySK(S) ==
  IF S = {} THEN << >>
  ELSE LET first == CHOOSE x \in S : \A y \in S : x.SK <= y.SK
       IN <<first>> \o SortBySK(S \ {first})

(* KeyConditionExpression "PK = :pk AND SK >= :sk" *)
MatchingInclusive(t, p, sk) == SortBySK({x \in t : x.PK = p /\ x.SK >= sk})

(* KeyConditionExpression "PK = :pk AND SK > :sk": what the store holds    *)
(* for the query, in the order the store returns it                        *)
Matching(t, p, sk) == SortBySK({x \in t : x.PK = p /\ x.SK > sk})

(* the pages the store may answer a query with: a non-empty prefix of the  *)
(* matching items with the SK of its last item as LastEvaluatedKey, which  *)
(* may be absent only when the prefix is everything that matches           *)
QueryResults(t, p, sk) ==
  LET all == Matching(t, p, sk)
  IN IF all = << >>
     THEN {[Items |-> << >>, LastEvaluatedKey |-> Undefined]}
     ELSE {[Items |-> SubSeq(all, 1, n), LastEvaluatedKey |-> Num(all[n].SK)] :
             n \in 1..Len(all)}
          \cup {[Items |-> all, LastEvaluatedKey |-> Undefined]}

(* the caller invokes getHistoricalValues(pk, lastKey): the first query    *)
(* is issued                                                               *)
HistCall ==
  /\ op = "getHistoricalValues" /\ hCall = "idle"
  /\ hCall' = "pending"
  /\ hQueries' = 1
  /\ UNCHANGED <<op, table, pk, lastKey0, lastKey, hItems, hPages, writes, late,
                 wvars, gvars, dvars, rvars, evars>>

(* while (lastKey) *)
LoopAgainTruthy(lk) == lk.type = "number" /\ lk.num # 0

(* while (lastKey !== undefined) *)
LoopAgain(lk) == lk # Undefined

(* items = result.Items instead of items.concat(result.Items) *)
HistRespondOverwrite ==
  /\ op = "getHistoricalValues" /\ hCall = "pending"
  /\ \E result \in QueryResults(table, pk, lastKey.num) :
       /\ lastKey' = result.LastEvaluatedKey
       /\ hItems' = result.Items
  /\ hPages' = hPages + 1
  /\ IF LoopAgain(lastKey')
     THEN hQueries' = hQueries + 1 /\ hCall' = "pending"
     ELSE hQueries' = hQueries /\ hCall' = "returned"
  /\ UNCHANGED <<op, table, pk, lastKey0, writes, late, wvars, gvars, dvars, rvars, evars>>

(* takes the watermark from the first item of the page *)
HistRespondFirstKey ==
  /\ op = "getHistoricalValues" /\ hCall = "pending"
  /\ \E result \in QueryResults(table, pk, lastKey.num) :
       /\ lastKey' = IF result.LastEvaluatedKey = Undefined \/ result.Items = << >>
                     THEN result.LastEvaluatedKey
                     ELSE Num(result.Items[1].SK)
       /\ hItems' = hItems \o result.Items
  /\ hPages' = hPages + 1
  /\ IF LoopAgain(lastKey')
     THEN hQueries' = hQueries + 1 /\ hCall' = "pending"
     ELSE hQueries' = hQueries /\ hCall' = "returned"
  /\ UNCHANGED <<op, table, pk, lastKey0, writes, late, wvars, gvars, dvars, rvars, evars>>

(* the store answers the query: the rest of the loop body, the loop test   *)
(* and either the next query or the return                                 *)
HistRespond ==
  /\ op = "getHistoricalValues" /\ hCall = "pending"
  /\ \E result \in QueryResults(table, pk, lastKey.num) :
       /\ lastKey' = result.LastEvaluatedKey
       /\ hItems' = hItems \o result.Items
  /\ hPages' = hPages + 1
  /\ IF LoopAgain(lastKey')
     THEN hQueries' = hQueries + 1 /\ hCall' = "pending"
     ELSE hQueries' = hQueries /\ hCall' = "returned"
  /\ UNCHANGED <<op, table, pk, lastKey0, writes, late, wvars, gvars, dvars, rvars, evars>>

(* another client puts an item with sort key sk in the partition while    *)
(* the call is paging                                                      *)
OtherPut(sk) ==
  /\ op = "getHistoricalValues" /\ hCall = "pending"
  /\ writes < MaxOtherWrites
  /\ writes' = writes + 1
  /\ LET item == [PK |-> pk, SK |-> sk, v |-> writes + 1]
     IN /\ table' = Upsert(table, item)
        /\ late' = IF sk <= lastKey.num THEN late \cup {item} ELSE late
  /\ UNCHANGED <<op, pk, lastKey0, lastKey, hItems, hCall, hQueries, hPages,
                 wvars, gvars, dvars, rvars, evars>>

(* another client deletes the item with sort key sk from the partition     *)
(* while the call is paging                                                *)
OtherDelete(sk) ==
  /\ op = "getHistoricalValues" /\ hCall = "pending"
  /\ writes < MaxOtherWrites
  /\ \E x \in table : x.PK = pk /\ x.SK = sk
  /\ writes' = writes + 1
  /\ table' = {x \in table : ~(x.PK = pk /\ x.SK = sk)}
  /\ UNCHANGED <<op, pk, lastKey0, lastKey, hItems, hCall, hQueries, hPages, late,
                 wvars, gvars, dvars, rvars, evars>>

NextHist ==
  \/ HistCall
  \/ HistRespond

NextHistConcurrent ==
  \/ HistCall
  \/ HistRespond
  \/ \E sk \in 0..MaxSK : OtherPut(sk)
  \/ \E sk \in 0..MaxSK : OtherDelete(sk)

(* ---- DELETE ---- *)
PKValues == {NoString, Str(""), Str("x")}
SKValues == {Undefined, NaN, Num(0), Num(1)}
DeleteKeys == [PK : PKValues, SK : SKValues]

InitDelete ==
  /\ op = "DELETE"
  /\ table = {}
  /\ \E n \in 0..MaxDeleteKeys : dKeys \in [1..n -> DeleteKeys]
  /\ requests = << >>
  /\ dCall = "idle"
  /\ IdleWrite /\ IdleGet /\ IdleHist /\ IdleDedup /\ NoErrors

(* truthiness of a string or absent value *)
TruthyStr(x) == x.type = "string" /\ x.str # ""

(* truthiness of a number or absent value *)
TruthyNum(x) == x.type = "number" /\ x.num # 0

(* x == 0 for a number or absent value *)
LooseEqZero(x) == x.type = "number" /\ x.num = 0

(* item.PK && item.SK *)
DeleteGuardTruthy(item) == TruthyStr(item.PK) /\ TruthyNum(item.SK)

(* item.PK && (item.SK == 0 || item.SK) *)
DeleteGuard(item) == TruthyStr(item.PK) /\ (LooseEqZero(item.SK) \/ TruthyNum(item.SK))

(* await Promise.all(requests) *)
PromiseAllDelete(rs) ==
  IF \A i \in 1..Len(rs) : rs[i].pc = "done" THEN "returned" ELSE "pending"

(* the caller invokes DELETE(keys): the for loop issues the deletes *)
DeleteCall ==
  /\ op = "DELETE" /\ dCall = "idle"
  /\ requests' = LET kept == SelectSeq(dKeys, DeleteGuard)
                 IN [i \in 1..Len(kept) |-> [Key |-> kept[i], pc |-> "await"]]
  /\ dCall' = PromiseAllDelete(requests')
  /\ UNCHANGED <<op, table, dKeys, wvars, gvars, hvars, rvars, evars>>

(* the store acknowledges the i-th native delete *)
DeleteAck(i) ==
  /\ op = "DELETE"
  /\ i \in 1..Len(requests) /\ requests[i].pc = "await"
  /\ requests' = [requests EXCEPT ![i].pc = "done"]
  /\ dCall' = IF dCall = "pending" THEN PromiseAllDelete(requests') ELSE dCall
  /\ UNCHANGED <<op, table, dKeys, wvars, gvars, hvars, rvars, evars>>

NextDelete ==
  \/ DeleteCall
  \/ \E i \in 1..Len(requests) : DeleteAck(i)

(* ---- removeDuplicateKeys on its own ---- *)
DedupKeys == [PK : {"a", "b"}, SK : {0, 1}]

InitDedup ==
  /\ op = "removeDuplicateKeys"
  /\ table = {}
  /\ \E n \in 0..MaxDedupLen : \E ks \in [1..n -> DedupKeys] :
       rIn = [i \in 1..n |-> [PK |-> ks[i].PK, SK |-> ks[i].SK, v |-> i]]
  /\ rOut = << >>
  /\ rAgain = << >>
  /\ rCall = "idle"
  /\ IdleWrite /\ IdleGet /\ IdleHist /\ IdleDelete /\ NoErrors

(* removeDuplicateKeys(items) *)
Dedup ==
  /\ op = "removeDuplicateKeys" /\ rCall = "idle"
  /\ rOut' = removeDuplicateKeys(rIn)
  /\ rCall' = "once"
  /\ UNCHANGED <<op, table, rIn, rAgain, wvars, gvars, hvars, dvars, evars>>

(* removeDuplicateKeys(removeDuplicateKeys(items)) *)
DedupAgain ==
  /\ op = "removeDuplicateKeys" /\ rCall = "once"
  /\ rAgain' = removeDuplicateKeys(rOut)
  /\ rCall' = "twice"
  /\ UNCHANGED <<op, table, rIn, rOut, wvars, gvars, hvars, dvars, evars>>

NextDedup ==
  \/ Dedup
  \/ DedupAgain

(* ---- errors of the store client ---- *)
(* the error is taken for throttling: the chain sleeps and tries again *)
WriteErrorRetried(c) ==
  /\ op = "batchWrite"
  /\ c \in 1..Len(loops) /\ loops[c].pc = "await"
  /\ loops[c].retryCount < maxWriteRetries
  /\ loops' = [loops EXCEPT ![c].pc = "sleep", ![c].responses = loops[c].responses + 1,
                            ![c].throttled = loops[c].throttled + 1]
  /\ raised' = raised + 1
  /\ UNCHANGED <<op, table, items, failOnError, wCall, run, firstKeys, timed, errSrc,
                 gvars, hvars, dvars, rvars>>

(* the native batch write of chunk c fails: the await of line 81 throws,   *)
(* the chain rejects, and so does Promise.all unless it has settled        *)
WriteError(c) ==
  /\ op = "batchWrite"
  /\ c \in 1..Len(loops) /\ loops[c].pc = "await"
  /\ loops' = [loops EXCEPT ![c].pc = "error", ![c].responses = loops[c].responses + 1]
  /\ raised' = raised + 1
  /\ IF wCall = "pending"
     THEN wCall' = "error" /\ errSrc' = c
     ELSE UNCHANGED <<wCall, errSrc>>
  /\ UNCHANGED <<op, table, items, failOnError, run, firstKeys, timed,
                 gvars, hvars, dvars, rvars>>

(* the native batch get of chunk c of the pass fails: Promise.all rejects  *)
(* unless it has, the await of line 142 throws and the error passes        *)
(* through every awaiting invocation                                       *)
GetError(c) ==
  /\ op = "batchGet" /\ gCall \in {"pending", "error"}
  /\ c \in 1..Len(pass.requests) /\ pass.requests[c].pc = "await"
  /\ pass' = [pass EXCEPT !.requests[c].pc = "error"]
  /\ raised' = raised + 1
  /\ IF gCall = "pending"
     THEN gCall' = "error" /\ errSrc' = c /\ stack' = << >>
     ELSE UNCHANGED <<gCall, errSrc, stack>>
  /\ UNCHANGED <<op, table, keys, retriesLeft, gResult, gPasses, resolved, stuck, passes,
                 wvars, hvars, dvars, rvars>>

(* the query fails: the await of line 60 throws *)
HistError ==
  /\ op = "getHistoricalValues" /\ hCall = "pending"
  /\ hCall' = "error"
  /\ raised' = raised + 1
  /\ errSrc' = hQueries
  /\ UNCHANGED <<op, table, pk, lastKey0, lastKey, hItems, hQueries, hPages, writes, late,
                 wvars, gvars, dvars, rvars>>

(* the i-th native delete fails: Promise.all rejects unless it has settled *)
DeleteError(i) ==
  /\ op = "DELETE"
  /\ i \in 1..Len(requests) /\ requests[i].pc = "await"
  /\ requests' = [requests EXCEPT ![i].pc = "error"]
  /\ raised' = raised + 1
  /\ IF dCall = "pending"
     THEN dCall' = "error" /\ errSrc' = i
     ELSE UNCHANGED <<dCall, errSrc>>
  /\ UNCHANGED <<op, table, dKeys, wvars, gvars, hvars, rvars>>

NextErrors ==
  \/ \E c \in 1..Len(loops) : WriteError(c)
  \/ \E c \in 1..Len(pass.requests) : GetError(c)
  \/ HistError
  \/ \E i \in 1..Len(requests) : DeleteError(i)

Init == InitWrite \/ InitGet \/ InitHist \/ InitDelete \/ InitDedup
Next == NextWrite \/ NextGet \/ NextHist \/ NextDelete \/ NextDedup
Spec == Init /\ [][Next]_vars
SpecWrite == InitWrite /\ [][NextWrite]_vars
SpecSleep == InitSleep /\ [][NextWrite]_vars
SpecGet == InitGet /\ [][NextGet]_vars
SpecHist == InitHist /\ [][NextHist]_vars
SpecHistFair == InitHist /\ [][NextHist]_vars /\ WF_vars(NextHist)
SpecHistConcurrent == InitHist /\ [][NextHistConcurrent]_vars
SpecDelete == InitDelete /\ [][NextDelete]_vars
SpecDedup == InitDedup /\ [][NextDedup]_vars
SpecErrors == Init /\ [][Next \/ NextErrors]_vars

(* ======================= properties ======================= *)

Settled(l) == l.pc \in {"done", "failed"}

NoDuplicateKeys(s) == \A i, j \in 1..Len(s) : i # j => ~SameKey(s[i], s[j])

(* C1: every native batch-write call in flight (first attempt or retry)    *)
(* carries at most 25 items and every native batch-get call issued by a    *)
(* pass carries at most 100 keys.                                          *)
C1_PerCallLimit ==
  /\ \A c \in 1..Len(loops) : loops[c].pc = "await" => Len(loops[c].items) <= 25
  /\ \A c \in 1..Len(pass.requests) : Len(pass.requests[c].keys) <= 100

(* a retry of a full chunk of 25 items is in flight for an input of more   *)
(* than 25 items                                                           *)
C1_Witness ==
  /\ Len(items) > 25
  /\ \E c \in 1..Len(loops) :
       loops[c].pc = "await" /\ loops[c].retryCount > 0 /\ Len(loops[c].items) = 25

(* C2: no native batch call carries two entries with the same (PK, SK),    *)
(* and an item submitted by batchWrite is the first entry of its chunk of  *)
(* the input that has its key.                                             *)
C2_NoDuplicateSubmitted ==
  /\ \A c \in 1..Len(loops) :
       loops[c].pc = "await" =>
         /\ NoDuplicateKeys(loops[c].items)
         /\ \A k \in 1..Len(loops[c].items) :
              \A i \in ((c - 1) * 25 + 1)..Min(c * 25, Len(items)) :
                SameKey(items[i], loops[c].items[k]) => loops[c].items[k].v <= items[i].v
  /\ \A c \in 1..Len(pass.requests) : NoDuplicateKeys(pass.requests[c].keys)

(* a first attempt is in flight for a chunk that held the same key twice   *)
(* and more than one key                                                   *)
C2_Witness ==
  \E c \in 1..Len(loops) :
    /\ loops[c].pc = "await" /\ loops[c].retryCount = 0
    /\ Len(loops[c].items) > 1
    /\ Len(loops[c].items) < Len(ChunkOf(items, c, batchWriteStep))

(* C3, as stated: once the first 6 attempts of a chunk have each reported  *)
(* unprocessed items, a settled batchWrite(items, true) has failed.        *)
C3_SixAttempts ==
  \A c \in 1..Len(loops) :
    (failOnError /\ loops[c].throttled >= 6 /\ wCall \in {"returned", "failed"})
      => wCall = "failed"

(* C3, amended: a chunk is attempted at most 7 times (6 retries); when     *)
(* each of the 7 attempts reported unprocessed items the chain throws and  *)
(* batchWrite fails if failOnError, and the chain ends without error       *)
(* otherwise; with failOnError false the call never fails and has returned *)
(* once every chain has ended.                                             *)
C3_SevenAttempts ==
  /\ \A c \in 1..Len(loops) :
       /\ loops[c].attempts <= 7
       /\ loops[c].throttled >= 7 =>
            IF failOnError
            THEN loops[c].pc = "failed" /\ wCall = "failed"
            ELSE loops[c].pc = "done"
       /\ (loops[c].pc = "failed" => loops[c].throttled = 7)
  /\ ~failOnError =>
       /\ wCall # "failed"
       /\ ((wCall # "idle" /\ \A c \in 1..Len(loops) : Settled(loops[c]))
             => wCall = "returned")

(* failOnError: the seventh attempt of a chunk reported unprocessed items  *)
(* and the call has failed                                                 *)
C3_Witness ==
  /\ failOnError /\ wCall = "failed"
  /\ \E c \in 1..Len(loops) : loops[c].throttled = 7 /\ loops[c].attempts = 7

(* C4: ThrottledWrite is raised only with failOnError, by a chain whose    *)
(* retry count has reached maxWriteRetries and whose last attempt left a   *)
(* non-empty remainder; a chain one of whose attempts reported nothing     *)
(* unprocessed ends without error; with failOnError false nothing fails.   *)
C4_ThrottledOnlyWhen ==
  /\ \A c \in 1..Len(loops) :
       /\ loops[c].pc = "failed" =>
            /\ failOnError
            /\ loops[c].retryCount = maxWriteRetries
            /\ Len(loops[c].items) > 0
            /\ ~loops[c].clean
       /\ loops[c].clean => loops[c].pc = "done" /\ loops[c].items = << >>
  /\ wCall = "failed" => failOnError /\ \E c \in 1..Len(loops) : loops[c].pc = "failed"
  /\ ~failOnError => wCall # "failed"

(* failOnError false: the budget of a chunk is exhausted, its remainder is *)
(* dropped and the call has returned                                       *)
C4_Witness ==
  /\ ~failOnError /\ wCall = "returned"
  /\ \E c \in 1..Len(loops) :
       loops[c].pc = "done" /\ ~loops[c].clean /\ Len(loops[c].items) > 0

(* C5: with retriesLeft = 3 at most 3 passes issue native calls; a call    *)
(* that failed made exactly 3 passes; a call that has settled while some   *)
(* key was reported unprocessed in every pass has failed.                  *)
C5_ThreePasses ==
  (op = "batchGet" /\ retriesLeft = 3) =>
    /\ gPasses <= 3
    /\ gCall = "failed" => gPasses = 3
    /\ (gCall \in {"returned", "failed"} /\ stuck # {}) => gCall = "failed"

(* the call failed with a key that was unprocessed in each of 3 passes *)
C5_Witness ==
  op = "batchGet" /\ retriesLeft = 3 /\ gCall = "failed" /\ stuck # {} /\ gPasses = 3

(* C6: when batchGet has returned, no response of its last pass reported   *)
(* an unprocessed key and every key of the input was reported processed;   *)
(* when it has settled with keys unprocessed in the last pass it failed,   *)
(* and a failed call returned no item.                                     *)
C6_NoPartialSuccess ==
  /\ gCall = "returned" =>
       /\ \A c \in 1..Len(pass.requests) :
            pass.requests[c].pc = "done" /\ pass.requests[c].Unprocessed = << >>
       /\ \A i \in 1..Len(keys) : keys[i] \in resolved
  /\ (gCall \in {"returned", "failed"}
        /\ \E c \in 1..Len(pass.requests) : pass.requests[c].Unprocessed # << >>)
       => gCall = "failed"
  /\ gCall = "failed" => gResult = << >>

(* the call failed after earlier passes had resolved items *)
C6_Witness ==
  /\ gCall = "failed" /\ gPasses = 3
  /\ \E k \in resolved : StoredItem(k) \in table

(* C7, as stated: when batchWrite has returned or failed, every chain has  *)
(* settled.                                                                *)
C7_AllSettledAtReturn ==
  wCall \in {"returned", "failed"} => \A c \in 1..Len(loops) : Settled(loops[c])

(* C7, amended: when batchWrite has returned normally every chain has      *)
(* ended without error; it fails as soon as one chain fails (it is not     *)
(* pending while a chain has failed), whatever the other chains are doing. *)
C7_SettledAtNormalReturn ==
  /\ wCall = "returned" => \A c \in 1..Len(loops) : loops[c].pc = "done"
  /\ wCall = "pending" =>
       /\ \A c \in 1..Len(loops) : loops[c].pc # "failed"
       /\ \E c \in 1..Len(loops) : ~Settled(loops[c])
  /\ wCall = "failed" => \E c \in 1..Len(loops) : loops[c].pc = "failed"

(* the call has failed while the chain of another chunk is retrying *)
C7_Witness ==
  /\ wCall = "failed"
  /\ \E c \in 1..Len(loops) : loops[c].pc \in {"await", "sleep"} /\ loops[c].retryCount > 0

(* C8: from one query to the next the watermark strictly increases, and no *)
(* sort key occurs twice in the accumulated items.                         *)
C8_WatermarkIncreases ==
  /\ [][(hCall = "pending" /\ hCall' = "pending") => lastKey'.num > lastKey.num]_vars
  /\ [](\A i, j \in 1..Len(hItems) : i # j => hItems[i].SK # hItems[j].SK)

(* a third query is in flight after two non-empty pages *)
C8_Witness == hCall = "pending" /\ hQueries = 3 /\ Len(hItems) >= 2

(* C9: the sequence returned holds exactly the items of partition pk with  *)
(* SK above the lastKey argument, each once, in ascending SK order.        *)
C9_ReturnsRange ==
  hCall = "returned" =>
    /\ {hItems[i] : i \in 1..Len(hItems)} = {x \in table : x.PK = pk /\ x.SK > lastKey0}
    /\ \A i \in 1..(Len(hItems) - 1) : hItems[i].SK < hItems[i + 1].SK

(* items 1, 2, 3, 5 were returned from two pages, the first ending at 3 *)
C9_Witness ==
  /\ hCall = "returned" /\ hQueries = 2
  /\ [i \in 1..Len(hItems) |-> hItems[i].SK] = <<1, 2, 3, 5>>
  /\ lastKey0 = DefaultLastKey

Present(x) == x.type # "undefined"

(* C10, as stated: the number of native deletes equals the number of input *)
(* keys whose PK is present and whose SK is present.                       *)
C10_PresentKeys ==
  dCall # "idle" =>
    Len(requests) = Cardinality({i \in 1..Len(dKeys) :
                                   Present(dKeys[i].PK) /\ Present(dKeys[i].SK)})

WellFormed(k) == k.PK.type = "string" /\ k.PK.str # "" /\ k.SK.type = "number"

(* C10, amended: the native deletes issued are, in input order, the input  *)
(* keys whose PK is a non-empty string and whose SK is a number other than *)
(* NaN, zero included; no other key is deleted and the call returns.       *)
C10_WellFormedKeys ==
  dCall # "idle" =>
    /\ Len(requests) = Cardinality({i \in 1..Len(dKeys) : WellFormed(dKeys[i])})
    /\ \A i \in 1..Len(requests) : WellFormed(requests[i].Key)
    /\ \A i \in 1..Len(dKeys) :
         WellFormed(dKeys[i]) => \E j \in 1..Len(requests) : requests[j].Key = dKeys[i]

(* of two keys only the one with SK zero was deleted; the call returned *)
C10_Witness ==
  /\ dCall = "returned" /\ Len(dKeys) = 2 /\ Len(requests) = 1
  /\ requests[1].Key.SK = Num(0)

(* the items the store returned in a pass, in chunk order *)
PassItems(p) == Flat([c \in 1..Len(p.requests) |-> p.requests[c].Responses])

(* the keys the store reported unprocessed in a pass, in chunk order *)
PassUnprocessed(p) == Flat([c \in 1..Len(p.requests) |-> p.requests[c].Unprocessed])

(* C11: a pass after the first is made on exactly the keys the pass before *)
(* it reported unprocessed, with retriesLeft one less; no pass follows a   *)
(* pass without unprocessed keys; the value returned is the items of the   *)
(* passes, pass after pass, each in chunk order.                           *)
C11_ResultOfPasses ==
  /\ \A i \in 1..(Len(passes) - 1) :
       /\ PassUnprocessed(passes[i]) # << >>
       /\ passes[i + 1].keys = PassUnprocessed(passes[i])
       /\ passes[i + 1].retriesLeft = passes[i].retriesLeft - 1
  /\ (gCall = "pending" /\ Len(passes) > 0) =>
       /\ pass.keys = PassUnprocessed(passes[Len(passes)])
       /\ pass.retriesLeft = passes[Len(passes)].retriesLeft - 1
  /\ gCall = "returned" =>
       /\ gResult = Flat([i \in 1..Len(passes) |-> PassItems(passes[i])])
       /\ Len(passes) > 0 => PassUnprocessed(passes[Len(passes)]) = << >>

(* returned after a first pass of two chunks and a recursive pass, both    *)
(* with items                                                              *)
C11_Witness ==
  /\ gCall = "returned" /\ Len(passes) = 2
  /\ Len(passes[1].requests) = 2
  /\ PassItems(passes[1]) # << >> /\ PassItems(passes[2]) # << >>

ItemsOf(seq) == {seq[i] : i \in 1..Len(seq)}

(* C12: in a second batchWrite of the same items, made after a first one   *)
(* that returned with every item accepted and against a store that accepts *)
(* every item, nothing fails, the store holds one entity per (PK, SK), and *)
(* when it returns the store holds the keys it held after the first run,   *)
(* which are the keys of the input.                                        *)
C12_SecondRunIdempotent ==
  run = 2 =>
    /\ wCall # "failed"
    /\ \A c \in 1..Len(loops) : loops[c].pc # "failed"
    /\ \A x, y \in table : SameKey(x, y) => x = y
    /\ {KeyOf(x) : x \in table} = firstKeys
    /\ firstKeys = {KeyOf(items[i]) : i \in 1..Len(items)}

(* the second run of an input of two chunks that share a key has returned *)
C12_Witness ==
  /\ run = 2 /\ wCall = "returned" /\ Len(loops) = 2
  /\ Cardinality(firstKeys) < Len(items)

(* C14: the payload of a chain holds only items of its own chunk, none of  *)
(* them accepted by the store before, and together with the accepted items *)
(* they are the deduplicated chunk; when a sleep elapses the chain submits *)
(* the remainder it was left with, with retryCount one more.               *)
C14_OwnSliceOnly ==
  /\ [](\A c \in 1..Len(loops) :
          loops[c].pc \in {"await", "sleep"} =>
            /\ ItemsOf(loops[c].items) \subseteq ItemsOf(ChunkOf(items, c, 25))
            /\ ItemsOf(loops[c].items) \cap loops[c].accepted = {}
            /\ ItemsOf(loops[c].items) \cup loops[c].accepted
                 = ItemsOf(removeDuplicateKeys(ChunkOf(items, c, 25))))
  /\ [][\A c \in 1..Len(loops) :
          (loops[c].pc = "sleep" /\ loops'[c].pc = "await") =>
            /\ loops'[c].items = loops[c].items
            /\ loops'[c].retryCount = loops[c].retryCount + 1]_vars

(* a retry is in flight for the remainder of a chunk part of which the     *)
(* store accepted, next to the chain of another chunk                      *)
C14_Witness ==
  /\ Len(loops) = 2
  /\ \E c \in 1..Len(loops) :
       /\ loops[c].pc = "await" /\ loops[c].retryCount >= 2
       /\ loops[c].accepted # {} /\ Len(loops[c].items) > 1

(* C15: a chain has at most one native call in flight, and one exactly     *)
(* while it awaits; every attempt after the first follows a response and   *)
(* an elapsed sleep: attempts = wakes + 1, and a sleeping chain has        *)
(* received the response of every attempt it made.                         *)
C15_SequentialAttempts ==
  \A c \in 1..Len(loops) :
    /\ loops[c].attempts - loops[c].responses \in {0, 1}
    /\ loops[c].pc = "await" <=> loops[c].attempts - loops[c].responses = 1
    /\ loops[c].attempts = loops[c].wakes + 1
    /\ loops[c].retryCount = loops[c].wakes
    /\ loops[c].wakes <= loops[c].throttled
    /\ loops[c].pc = "sleep" =>
         loops[c].responses = loops[c].attempts /\ loops[c].wakes = loops[c].responses - 1

(* the third attempt of one chunk is in flight while another chunk still   *)
(* awaits its first response                                               *)
C15_Witness ==
  /\ Len(loops) = 2
  /\ \E c, d \in 1..Len(loops) :
       /\ loops[c].pc = "await" /\ loops[c].attempts = 3
       /\ loops[d].pc = "await" /\ loops[d].attempts = 1

(* C17: a chain sleeping after an attempt with retry count n, 0 <= n < 6,  *)
(* sleeps at least wait / 2 and less than 3 * wait / 2 where wait is 10,   *)
(* 20, 40, 80, 160, 320 ms for n = 0..5; a chain never sleeps more than    *)
(* 1.2 s in all.                                                           *)
C17_BackoffSleep ==
  \A c \in 1..Len(loops) :
    /\ loops[c].pc = "sleep" =>
         /\ loops[c].retryCount \in 0..5
         /\ LET waitUs == <<10, 20, 40, 80, 160, 320>>[loops[c].retryCount + 1] * 1000
            IN /\ 2 * loops[c].sleepUs >= waitUs
               /\ 2 * loops[c].sleepUs < 3 * waitUs
    /\ loops[c].sleptUs <= 1200000
    /\ loops[c].wakes <= 6

(* every attempt of a chain failed and the chain slept more than the       *)
(* nominal 630 ms                                                          *)
C17_Witness ==
  \E c \in 1..Len(loops) : loops[c].throttled = 7 /\ loops[c].sleptUs > 630000

(* C19: when batchWrite(items, true) has returned, every key of the input  *)
(* is the key of an item some chain submitted and the store accepted, and  *)
(* the store holds an item with that key.                                  *)
C19_ReturnMeansAccepted ==
  (failOnError /\ wCall = "returned") =>
    \A i \in 1..Len(items) :
      /\ \E c \in 1..Len(loops) : \E x \in loops[c].accepted : SameKey(x, items[i])
      /\ \E x \in table : SameKey(x, items[i])

(* batchWrite(items, true) returned for an input of two chunks after the   *)
(* store had throttled a chunk six times                                   *)
C19_Witness ==
  /\ failOnError /\ wCall = "returned" /\ run = 1 /\ Len(loops) = 2
  /\ \E c \in 1..Len(loops) : loops[c].throttled = 6

(* C13: the value removeDuplicateKeys returns is a subsequence of its      *)
(* input, holds no key twice and, for every item of the input, the first   *)
(* item of the input with that key (attributes included); applied to its   *)
(* own output it returns that output.                                      *)
C13_KeepsFirstOccurrences ==
  /\ rCall # "idle" =>
       /\ \A k \in 1..Len(rOut) : rOut[k].v \in 1..Len(rIn) /\ rOut[k] = rIn[rOut[k].v]
       /\ \A k \in 1..(Len(rOut) - 1) : rOut[k].v < rOut[k + 1].v
       /\ \A k, l \in 1..Len(rOut) : k # l => ~SameKey(rOut[k], rOut[l])
       /\ \A i \in 1..Len(rIn) :
            \E k \in 1..Len(rOut) : SameKey(rOut[k], rIn[i]) /\ rOut[k].v <= i
  /\ rCall = "twice" => rAgain = rOut

(* applied twice to an input that repeats a key after another key *)
C13_Witness ==
  /\ rCall = "twice" /\ Len(rIn) = 4 /\ Len(rOut) = 2
  /\ SameKey(rIn[1], rIn[3]) /\ ~SameKey(rIn[1], rIn[2])

(* C18: after a response the loop is left exactly when lastKey is          *)
(* undefined (the response carried no last evaluated key) and another      *)
(* query is under way otherwise, also when lastKey is 0: the queries       *)
(* issued are the responses received, plus one while the call is pending;  *)
(* the call returns eventually.                                            *)
C18_StopsWithoutLastKey ==
  /\ [](hPages >= 1 =>
          /\ lastKey = Undefined <=> hCall = "returned"
          /\ lastKey # Undefined <=> hCall = "pending"
          /\ hQueries = IF hCall = "pending" THEN hPages + 1 ELSE hPages)
  /\ [](hCall = "returned" => hPages >= 1)
  /\ <>(hCall = "returned")

(* a second query is under way after a response with last evaluated key 0 *)
C18_Witness == hCall = "pending" /\ hPages = 1 /\ lastKey = Num(0) /\ hQueries = 2

(* C20: with other clients writing to the partition during the call, the   *)
(* accumulated items have strictly ascending SK, all above the lastKey     *)
(* argument, and hold no item that was put at or below the watermark of    *)
(* the query under way.                                                    *)
C20_AscendingUnderWrites ==
  /\ \A i \in 1..(Len(hItems) - 1) : hItems[i].SK < hItems[i + 1].SK
  /\ \A i \in 1..Len(hItems) : hItems[i].SK > lastKey0
  /\ \A x \in late : x \notin ItemsOf(hItems)

(* the call returned items of two pages although an item was put below the *)
(* watermark and a returned item was deleted meanwhile                     *)
C20_Witness ==
  /\ hCall = "returned" /\ hPages >= 2 /\ Len(hItems) >= 2
  /\ late # {}
  /\ \E i \in 1..Len(hItems) : hItems[i] \notin table

(* C16, as stated: whenever a native call has raised an error, the call of *)
(* the exported function has failed with that error.                       *)
C16_EveryErrorFailsCall ==
  /\ \A c \in 1..Len(loops) : loops[c].pc = "error" => wCall = "error" /\ errSrc = c
  /\ \A c \in 1..Len(pass.requests) :
       pass.requests[c].pc = "error" => gCall = "error" /\ errSrc = c
  /\ (op = "getHistoricalValues" /\ raised > 0) => hCall = "error"
  /\ \A i \in 1..Len(requests) : requests[i].pc = "error" => dCall = "error" /\ errSrc = i

(* C16, amended: once a native call has raised an error the call has       *)
(* failed: with that error when the call was still pending (the error it   *)
(* failed with is the error of a native call that raised one), with the    *)
(* failure that came first otherwise; a chain, pass, query loop or delete  *)
(* whose native call raised an error issues no further native call.        *)
C16_FirstErrorFailsCall ==
  /\ [](raised > 0 =>
          /\ op = "batchWrite" => wCall \in {"error", "failed"}
          /\ op = "batchGet" => gCall = "error"
          /\ op = "getHistoricalValues" => hCall = "error"
          /\ op = "DELETE" => dCall = "error")
  /\ [](/\ wCall = "error" => loops[errSrc].pc = "error"
        /\ wCall = "failed" => failOnError
        /\ gCall = "error" => pass.requests[errSrc].pc = "error"
        /\ dCall = "error" => requests[errSrc].pc = "error")
  /\ [][/\ (wCall = "pending" /\ raised' > raised) => wCall' = "error"
        /\ \A c \in 1..Len(loops) : loops[c].pc = "error" => loops'[c] = loops[c]
        /\ wCall = "error" => wCall' = "error" /\ errSrc' = errSrc
        /\ gCall = "error" => gCall' = "error" /\ errSrc' = errSrc /\ gPasses' = gPasses
        /\ hCall = "error" => hCall' = "error" /\ hQueries' = hQueries
        /\ dCall = "error" =>
             dCall' = "error" /\ errSrc' = errSrc /\ Len(requests') = Len(requests)]_vars

(* batchWrite(items, false) failed with the error raised in a retry of one *)
(* chunk while the chain of the other chunk goes on                        *)
C16_Witness ==
  /\ ~failOnError /\ wCall = "error" /\ Len(loops) = 2
  /\ loops[errSrc].pc = "error" /\ loops[errSrc].retryCount >= 1
  /\ \E d \in 1..Len(loops) : loops[d].pc \in {"await", "sleep"}
====
